---- MODULE Spec2Model ----
(***************************************************************************)
(* Shared-state broadcast server (src/server/server.cpp).                  *)
(*                                                                         *)
(* The server is a set of asio execution contexts: the store's strand, the *)
(* hasher's strand, the io_context pool, the registry's strand, one strand *)
(* per accepted socket and the acceptor's strand.  Every handler is one    *)
(* action; a strand is a FIFO queue of posted handlers.  Byte strings are  *)
(* TLA+ strings, hashes are computed by SHA-1 as the hasher does.          *)
(*                                                                         *)
(* The reusable session of src/common/session.hpp, which the server does   *)
(* not use, is modelled on its own in SpecSession.                         *)
(***************************************************************************)
EXTENDS Integers, Sequences, FiniteSets, TLC

(***************************************************************************)
(* Bounds of the model                                                     *)
(***************************************************************************)
MaxSessions == 2     \* connections accepted in one run
MaxLines == 2        \* lines sent by all clients together in one run, clients may disconnect
MaxLinesOpen == 3    \* the same, in the runs in which every client stays connected
FairSessions == 3    \* connections accepted in one run of the fair specification
FairLines == 1       \* lines sent in one run of the fair specification
MaxCalls == 3        \* calls the owner of a session of common/session.hpp makes in one run
MaxInactivity == 1   \* the largest inactivity time of such a session, 0 is no timer
MaxInLines == 1      \* lines the peer of such a session sends in one run
MaxPartial == 1      \* writes that transfer only a part of their bytes in one run
PartBytes == 2       \* bytes such a write transfers
HashSessions == 2    \* connections accepted in one run of the hasher's fair specification
HashLines == 2       \* lines sent in one run of the hasher's fair specification

Sessions == 1..(IF FairSessions > MaxSessions THEN FairSessions ELSE MaxSessions)

\* the update lines clients send: two values for one key, and a second key
Lines == {"a 1\n", "a 2\n", "b 1\n"}

\* other lines a client can send: without a space, empty, starting with a space
RawLines == {"x\n", "\n", " 1\n"}

(***************************************************************************)
(* Byte strings                                                            *)
(***************************************************************************)
CharAt(s, i) == SubSeq(s, i, i)

RECURSIVE IndexFrom(_, _, _)
\* the first position >= i of byte c in s, 0 when there is none (string_view::find)
IndexFrom(s, c, i) ==
    IF i > Len(s) THEN 0
    ELSE IF CharAt(s, i) = c THEN i
    ELSE IndexFrom(s, c, i + 1)

Find(s, c) == IndexFrom(s, c, 1)

Digits == "0123456789"
Lower == "abcdefghijklmnopqrstuvwxyz"

\* the value of a byte as unsigned char (ASCII), for the bytes the clients use
Ord(c) ==
    IF c = "\n" THEN 10
    ELSE IF c = " " THEN 32
    ELSE IF Find(Digits, c) > 0 THEN 47 + Find(Digits, c)
    ELSE 96 + Find(Lower, c)

Bytes(s) == [i \in 1..Len(s) |-> Ord(CharAt(s, i))]

Drop(s, n) == SubSeq(s, n + 1, Len(s))

RECURSIVE StrLess(_, _)
\* std::string operator< : lexicographic by unsigned byte value
StrLess(l, r) ==
    IF r = "" THEN FALSE
    ELSE IF l = "" THEN TRUE
    ELSE IF CharAt(l, 1) # CharAt(r, 1) THEN Ord(CharAt(l, 1)) < Ord(CharAt(r, 1))
    ELSE StrLess(Drop(l, 1), Drop(r, 1))

(***************************************************************************)
(* SHA-1 (boost::uuids::detail::sha1) on 32-bit words kept as two 16-bit   *)
(* halves <<high, low>>, and the "%08x" formatting of the five words       *)
(***************************************************************************)
Half == 2 ^ 16

RECURSIVE And16(_, _)
And16(a, b) == IF a = 0 \/ b = 0 THEN 0
               ELSE (a % 2) * (b % 2) + 2 * And16(a \div 2, b \div 2)
Xor16(a, b) == a + b - 2 * And16(a, b)
Or16(a, b)  == a + b - And16(a, b)
Not16(a)    == Half - 1 - a

WAnd(u, v) == <<And16(u[1], v[1]), And16(u[2], v[2])>>
WXor(u, v) == <<Xor16(u[1], v[1]), Xor16(u[2], v[2])>>
WOr(u, v)  == <<Or16(u[1], v[1]), Or16(u[2], v[2])>>
WNot(u)    == <<Not16(u[1]), Not16(u[2])>>
\* addition modulo 2^32
WAdd(u, v) == LET lo == u[2] + v[2]
              IN  <<(u[1] + v[1] + (lo \div Half)) % Half, lo % Half>>
\* rotate left by n, 0 < n < 16
RotlS(u, n) == <<((u[1] * (2 ^ n)) % Half) + (u[2] \div (2 ^ (16 - n))),
                 ((u[2] * (2 ^ n)) % Half) + (u[1] \div (2 ^ (16 - n)))>>
Rotl(u, n) == IF n = 16 THEN <<u[2], u[1]>>
              ELSE IF n < 16 THEN RotlS(u, n)
              ELSE RotlS(<<u[2], u[1]>>, n - 16)

\* the message followed by 0x80, zeros and its length in bits, a multiple of 64 bytes
Pad(bs) ==
    LET n == Len(bs)
        z == (119 - n) % 64
        bits == n * 8
    IN  bs \o <<128>> \o [i \in 1..z |-> 0]
           \o <<0, 0, 0, 0, (bits \div 16777216) % 256, (bits \div 65536) % 256,
                (bits \div 256) % 256, bits % 256>>

WordAt(bs, i) == <<bs[i] * 256 + bs[i + 1], bs[i + 2] * 256 + bs[i + 3]>>

RECURSIVE Expand(_)
\* the 80-word message schedule of one block
Expand(w) ==
    IF Len(w) = 80 THEN w
    ELSE LET i == Len(w) + 1
         IN  Expand(Append(w, Rotl(WXor(WXor(w[i - 3], w[i - 8]),
                                        WXor(w[i - 14], w[i - 16])), 1)))

Ft(i, b, c, d) ==
    IF i < 20 THEN WOr(WAnd(b, c), WAnd(WNot(b), d))
    ELSE IF i < 40 THEN WXor(WXor(b, c), d)
    ELSE IF i < 60 THEN WOr(WOr(WAnd(b, c), WAnd(b, d)), WAnd(c, d))
    ELSE WXor(WXor(b, c), d)

Kt(i) ==
    IF i < 20 THEN <<23170, 31129>>          \* 0x5A827999
    ELSE IF i < 40 THEN <<28377, 60321>>     \* 0x6ED9EBA1
    ELSE IF i < 60 THEN <<36635, 48348>>     \* 0x8F1BBCDC
    ELSE <<51810, 49622>>                    \* 0xCA62C1D6

Step(i, s, wi) ==
    LET t == WAdd(WAdd(WAdd(WAdd(Rotl(s[1], 5), Ft(i, s[2], s[3], s[4])), s[5]), Kt(i)), wi)
    IN  <<t, s[1], Rotl(s[2], 30), s[3], s[4]>>

RECURSIVE Rounds(_, _, _, _)
\* rounds i .. j-1 of the compression loop, in order (the first half is
\* computed before the second half starts)
Rounds(i, j, s, w) ==
    IF j = i + 1 THEN Step(i, s, w[i + 1])
    ELSE LET m == (i + j) \div 2
         IN  CHOOSE r \in {Rounds(m, j, n, w) : n \in {Rounds(i, m, s, w)}} : TRUE

Block(h, bs, off) ==
    LET w == Expand([i \in 1..16 |-> WordAt(bs, off + 4 * (i - 1) + 1)])
        r == Rounds(0, 80, h, w)
    IN  [i \in 1..5 |-> WAdd(h[i], r[i])]

RECURSIVE Blocks(_, _, _)
Blocks(h, bs, off) ==
    IF off >= Len(bs) THEN h ELSE Blocks(Block(h, bs, off), bs, off + 64)

\* 0x67452301 0xEFCDAB89 0x98BADCFE 0x10325476 0xC3D2E1F0
Sha1Init == << <<26437, 8961>>, <<61389, 43913>>, <<39098, 56574>>,
               <<4146, 21622>>, <<50130, 57840>> >>

\* sha1.process_bytes(data, size); sha1.get_digest(hash_dig)
get_digest(str) == Blocks(Sha1Init, Pad(Bytes(str)), 0)

HexDigit(d) == CharAt("0123456789abcdef", d + 1)
Hex16(a) == HexDigit(a \div 4096) \o HexDigit((a \div 256) % 16)
            \o HexDigit((a \div 16) % 16) \o HexDigit(a % 16)
\* sprintf(.., "%08x", word)
Hex08x(u) == Hex16(u[1]) \o Hex16(u[2])

\* the 42 bytes the pool lambda builds: '0' 'x' and "%08x" of each digest word
HashStr(str) ==
    LET d == get_digest(str)
    IN  "0x" \o Hex08x(d[1]) \o Hex08x(d[2]) \o Hex08x(d[3]) \o Hex08x(d[4]) \o Hex08x(d[5])

\* every value a line of the clients can carry
HashInputs == {Drop(l, i) : l \in Lines, i \in 0..4}
HashTable == [v \in HashInputs |-> HashStr(v)]

\* the digest of one job, as the pool lambda of hasher::hash_impl computes it
sha1_hex(str) == IF str \in HashInputs THEN HashTable[str] ELSE HashStr(str)

(***************************************************************************)
(* State                                                                   *)
(***************************************************************************)
VARIABLES
    \* the clients and the network
    peer,       \* peer[s]: "none" before the connection, "open", "closed" after the client closed
    rx,         \* rx[s]: bytes the client has sent that the server has not read yet
    nlines,     \* lines the clients may still send in this run
    nparts,     \* writes that may still transfer only a part of their bytes
    wire,       \* wire[s]: what was written to the socket of s, in order
    \* acceptor
    acc,        \* the acceptor: pc "accept" (async_accept pending), "add" (inside on_accepted,
                \* after sptr->start), "stopped"; s the session in hand
    nsess,      \* sessions created so far
    naccept,    \* connections that may still arrive in this run
    \* session s
    sock,       \* sock[s]: m_sock "open" or "closed"
    rd,         \* rd[s]: an async_read_until is outstanding (its handler holds the holder)
    buf,        \* buf[s]: the read buffer
    nupd,       \* nupd[s]: updates s has submitted to the store
    ssq,        \* ssq[s]: handlers posted to the socket's strand
    wr,         \* wr[s]: write operations in flight on the socket, oldest first
    \* shared_state
    stq,        \* handlers posted to shared_state::m_strand
    m_map,      \* key -> hash
    \* hasher
    hsq,        \* handlers posted to hasher::m_strand
    m_queue,    \* the job list
    pool,       \* jobs whose digest lambda is posted to the io_context
    njobs,      \* jobs created so far
    \* session_manager
    rgq,        \* handlers posted to session_manager::m_strand
    m_list,     \* the weak pointers, as session ids
    \* the process
    crashed,    \* the process ended after a use of a destroyed session
    \* history
    applied,    \* the runs of hash_calculated, in order
    hcb,        \* the completion callbacks the hasher invoked, in order
    nbcast,     \* broadcasts issued so far by on_updated
    ncalc,      \* runs of calculate_hash so far
    \* the reusable session of src/common/session.hpp
    m_sock,            \* "open" or "closed"
    m_on_stop,         \* set by stop_impl
    m_inactivity_time, \* 0: no inactivity timer
    m_waits,           \* async_wait operations pending on m_inactivity_timer
    posted,            \* handlers posted to the socket's executor, oldest first
    started,           \* start was called
    reading,           \* the read: "idle", "reading", completed "ok" or "err" with its
                       \* handler still to run
    inlines,           \* lines the peer has sent that were not read yet
    cpeer,             \* the peer of the socket: "open" or "closed"
    writes,            \* async_write operations in flight, oldest first
    sent_cb,           \* the calls of sent_cb: the send, its argument, and whether the
                       \* message was written
    readed_cb,         \* the values m_on_stop had when readed_cb was called
    ncalls             \* calls of start, send and stop the owner may still make

vars == <<peer, rx, nlines, nparts, wire, acc, nsess, naccept, sock, rd, buf, nupd, ssq, wr, stq, m_map,
          hsq, m_queue, pool, njobs, rgq, m_list, crashed, applied, hcb, nbcast, ncalc,
          m_sock, m_on_stop, m_inactivity_time, m_waits, posted, started, reading, inlines,
          cpeer, writes, sent_cb, readed_cb, ncalls>>

envVars == <<peer, rx, nlines, nparts>>
accVars == <<acc, nsess, naccept>>
hasherVars == <<hsq, m_queue, pool, njobs, hcb>>
registryVars == <<rgq, m_list>>
histVars == <<applied, nbcast, ncalc>>
commonVars == <<m_sock, m_on_stop, m_inactivity_time, m_waits, posted, started, reading,
                inlines, cpeer, writes, sent_cb, readed_cb, ncalls>>
serverVars == <<envVars, wire, accVars, sock, rd, buf, nupd, ssq, wr, stq, m_map,
                hasherVars, registryVars, crashed, histVars>>

\* the server after main has constructed it and called acc.start(); the
\* clients will connect `sessions` times and send `lines` lines
InitServer(sessions, lines, parts) ==
    /\ peer = [s \in Sessions |-> "none"]
    /\ rx = [s \in Sessions |-> ""]
    /\ nlines = lines
    /\ nparts = parts
    /\ naccept = sessions
    /\ wire = [s \in Sessions |-> <<>>]
    /\ acc = [pc |-> "accept", s |-> 0]
    /\ nsess = 0
    /\ sock = [s \in Sessions |-> "open"]
    /\ rd = [s \in Sessions |-> FALSE]
    /\ buf = [s \in Sessions |-> ""]
    /\ nupd = [s \in Sessions |-> 0]
    /\ ssq = [s \in Sessions |-> <<>>]
    /\ wr = [s \in Sessions |-> <<>>]
    /\ stq = <<>>
    /\ m_map = <<>>
    /\ hsq = <<>>
    /\ m_queue = <<>>
    /\ pool = {}
    /\ njobs = 0
    /\ rgq = <<>>
    /\ m_list = <<>>
    /\ crashed = FALSE
    /\ applied = <<>>
    /\ hcb = <<>>
    /\ nbcast = 0
    /\ ncalc = 0

\* a session of src/common/session.hpp after its construction, with
\* inactivity time t; its owner will make `calls` calls
InitSession(t, calls) ==
    /\ m_sock = "open"
    /\ m_on_stop = FALSE
    /\ m_inactivity_time = t
    /\ m_waits = 0
    /\ posted = <<>>
    /\ started = FALSE
    /\ reading = "idle"
    /\ inlines = 0
    /\ cpeer = "open"
    /\ writes = <<>>
    /\ sent_cb = <<>>
    /\ readed_cb = {}
    /\ ncalls = calls

\* the server does not use the session of src/common/session.hpp
InitWith(sessions, lines, parts) ==
    /\ InitServer(sessions, lines, parts)
    /\ InitSession(0, 0)

Init == InitWith(MaxSessions, MaxLines, 0)

(***************************************************************************)
(* Session lifetime: the shared_ptr holders of a session                   *)
(***************************************************************************)
HoldsIn(q, s) == \E i \in 1..Len(q) : q[i].holder = s

\* some shared_ptr<session> to s exists: the sptr of on_accepted, or a holder
\* captured in an outstanding read, update, hash job, send or write
Alive(s) ==
    /\ s <= nsess
    /\ \/ acc.pc = "add" /\ acc.s = s
       \/ rd[s]
       \/ HoldsIn(stq, s)
       \/ HoldsIn(hsq, s)
       \/ HoldsIn(m_queue, s)
       \/ HoldsIn(ssq[s], s)
       \/ wr[s] # <<>>

Destroyed(s) == s <= nsess /\ ~Alive(s)

(***************************************************************************)
(* Clients                                                                 *)
(***************************************************************************)
\* the client of s writes one line to its socket
ClientSend(s, l) ==
    /\ peer[s] = "open"
    /\ nlines > 0
    /\ rx' = [rx EXCEPT ![s] = @ \o l]
    /\ nlines' = nlines - 1
    /\ UNCHANGED <<peer, nparts, wire, accVars, sock, rd, buf, nupd, ssq, wr, stq, m_map,
                   hasherVars, registryVars, crashed, histVars, commonVars>>

\* the client of s closes its connection
ClientClose(s) ==
    /\ peer[s] = "open"
    /\ peer' = [peer EXCEPT ![s] = "closed"]
    /\ UNCHANGED <<rx, nlines, nparts, wire, accVars, sock, rd, buf, nupd, ssq, wr, stq,
                   m_map, hasherVars, registryVars, crashed, histVars, commonVars>>

(***************************************************************************)
(* acceptor                                                                *)
(***************************************************************************)
\* session::start: start_read with an empty buffer, then m_state.get_first
\* a session that never starts a read
start_read_never(s) == rd' = [rd EXCEPT ![s] = FALSE]

\* session::start_read: async_read_until on the session's socket; the read
\* operation holds the session
start_read(s) == rd' = [rd EXCEPT ![s] = TRUE]

start(s) ==
    /\ start_read(s)
    /\ buf' = [buf EXCEPT ![s] = ""]
    /\ stq' = Append(stq, [t |-> "get_first", holder |-> 0, s |-> s])

\* acceptor::on_accepted without error, up to the return of sptr->start(..)
on_accepted ==
    /\ ~crashed
    /\ acc.pc = "accept"
    /\ naccept > 0
    /\ LET s == nsess + 1
       IN  /\ nsess' = s
           /\ naccept' = naccept - 1
           /\ peer' = [peer EXCEPT ![s] = "open"]
           /\ start(s)
           /\ acc' = [pc |-> "add", s |-> s]
    /\ UNCHANGED <<rx, nlines, nparts, wire, sock, nupd, ssq, wr, m_map, hasherVars,
                   registryVars, crashed, histVars, commonVars>>

\* acceptor::on_accepted with an error: it is logged and no accept is started
accept_failed ==
    /\ ~crashed
    /\ acc.pc = "accept"
    /\ acc' = [pc |-> "stopped", s |-> 0]
    /\ UNCHANGED <<envVars, wire, nsess, naccept, sock, rd, buf, nupd, ssq, wr, stq, m_map,
                   hasherVars, registryVars, crashed, histVars, commonVars>>

\* acceptor::on_accepted without error for a connection its peer has reset
\* in the meantime: sock.remote_endpoint() throws system_error (not
\* connected), the exception leaves io_context::run and ends the process
on_accepted_reset ==
    /\ ~crashed
    /\ acc.pc = "accept"
    /\ naccept > 0
    /\ naccept' = naccept - 1
    /\ crashed' = TRUE
    /\ UNCHANGED <<peer, rx, nlines, nparts, wire, acc, nsess, sock, rd, buf, nupd, ssq, wr,
                   stq, m_map, hasherVars, registryVars, histVars, commonVars>>

\* session_manager::add: post the push_back to the registry's strand
add(s) == rgq' = Append(rgq, [t |-> "add", holder |-> 0, s |-> s])

\* acceptor::on_accepted, the rest: m_smgr.add(sptr); start()
on_accepted_add ==
    /\ ~crashed
    /\ acc.pc = "add"
    /\ add(acc.s)
    /\ acc' = [pc |-> "accept", s |-> 0]
    /\ UNCHANGED <<envVars, wire, nsess, naccept, sock, rd, buf, nupd, ssq, wr, stq, m_map,
                   hasherVars, m_list, crashed, histVars, commonVars>>

(***************************************************************************)
(* session: the read loop                                                  *)
(***************************************************************************)
HasLF(s) == Find(s, "\n") > 0

\* a parser that takes the newline for the separator of a line without a space
SpacePosOrEnd(sv) == IF Find(sv, " ") = 0 THEN Len(sv) ELSE Find(sv, " ")

\* sv.find(' '): the position of the first space of the line, 0 for npos
SpacePos(sv) == Find(sv, " ")

\* the key of a line sv whose first space is at pos
ParseKey(sv, pos) == SubSeq(sv, 1, pos - 1)
\* the value of a line sv whose first space is at pos:
\* make_buffer(sv.data() + pos + 1, sv.data() + sv.size())
ParseVal(sv, pos) == SubSeq(sv, pos + 1, Len(sv))

\* shared_state::update: post calculate_hash to the store's strand
update(key, val, s, n) ==
    stq' = Append(stq, [t |-> "update", holder |-> s, key |-> key, val |-> val, n |-> n])

\* the completion of async_read_until and session::on_readed.  A delimiter
\* already in the buffer completes the read at once; otherwise the bytes the
\* client has sent are read, and a closed socket or an end of stream ends
\* the read with an error
on_readed(s) ==
    /\ ~crashed
    /\ rd[s]
    /\ LET have == HasLF(buf[s])
           data == IF have \/ sock[s] = "closed" THEN buf[s] ELSE buf[s] \o rx[s]
           got  == HasLF(data)
           n    == Find(data, "\n")
           sv   == SubSeq(data, 1, n)
           pos  == SpacePos(sv)
       IN  /\ got \/ sock[s] = "closed" \/ peer[s] = "closed" \/ rx[s] # ""
           /\ rx' = IF have \/ sock[s] = "closed" THEN rx ELSE [rx EXCEPT ![s] = ""]
           /\ IF ~got
              THEN \* no line: more bytes are awaited, or the read ended with an error
                   /\ buf' = [buf EXCEPT ![s] = data]
                   /\ rd' = [rd EXCEPT ![s] =
                                ~(sock[s] = "closed" \/ (peer[s] = "closed" /\ rx[s] = ""))]
                   /\ UNCHANGED <<stq, nupd>>
              ELSE IF pos = 0
              THEN \* wrong string received: start_read on the same buffer
                   /\ buf' = [buf EXCEPT ![s] = data]
                   /\ start_read(s)
                   /\ UNCHANGED <<stq, nupd>>
              ELSE /\ buf' = [buf EXCEPT ![s] = Drop(data, n)]
                   /\ nupd' = [nupd EXCEPT ![s] = @ + 1]
                   /\ update(ParseKey(sv, pos), ParseVal(sv, pos), s, nupd[s] + 1)
                   /\ start_read(s)
    /\ UNCHANGED <<peer, nlines, nparts, wire, accVars, sock, ssq, wr, m_map, hasherVars,
                   registryVars, crashed, histVars, commonVars>>

(***************************************************************************)
(* shared_state                                                            *)
(***************************************************************************)
Msg(key, hash) == key \o " " \o hash \o "\n"

\* m_map.begin() and std::next(it) in the order of my_cmp; an iterator is
\* the key of its node, or end
MinKey(K) == CHOOSE k \in K : \A j \in K \ {k} : StrLess(k, j)
ItOf(K) == IF K = {} THEN [at_end |-> TRUE, key |-> ""]
           ELSE [at_end |-> FALSE, key |-> MinKey(K)]
map_begin == ItOf(DOMAIN m_map)
\* a step of the walk that goes to any other entry
map_next_other(it) == ItOf(DOMAIN m_map \ {it.key})

map_next(it) == ItOf({k \in DOMAIN m_map : StrLess(it.key, k)})

\* session::on_got_message, called on the store's strand through a callback
\* that captures only `this`: with an entry in hand it reads m_sock of the
\* session and posts the lambda that will call send
on_got_message(s, it) ==
    IF it.at_end
    THEN UNCHANGED <<ssq, crashed>>
    ELSE IF Alive(s)
    THEN /\ ssq' = [ssq EXCEPT ![s] = Append(@,
                       [t |-> "sync_post", holder |-> 0,
                        msg |-> Msg(it.key, m_map[it.key]), it |-> it])]
         /\ UNCHANGED crashed
    ELSE \* the session is destroyed: the process ends, or the read of the
         \* freed object happens to do nothing
         /\ \E c \in BOOLEAN : crashed' = c
         /\ UNCHANGED ssq

\* shared_state::get_first_impl
get_first_impl ==
    /\ ~crashed
    /\ stq # <<>> /\ Head(stq).t = "get_first"
    /\ stq' = Tail(stq)
    /\ on_got_message(Head(stq).s, map_begin)
    /\ UNCHANGED <<envVars, wire, accVars, sock, rd, buf, nupd, wr, m_map,
                   hasherVars, registryVars, histVars, commonVars>>

\* shared_state::get_next_impl
get_next_impl ==
    /\ ~crashed
    /\ stq # <<>> /\ Head(stq).t = "get_next"
    /\ stq' = Tail(stq)
    /\ on_got_message(Head(stq).s, map_next(Head(stq).it))
    /\ UNCHANGED <<envVars, wire, accVars, sock, rd, buf, nupd, wr, m_map,
                   hasherVars, registryVars, histVars, commonVars>>

\* shared_state::calculate_hash: m_hasher.hash posts hash_impl to the hasher's strand
calculate_hash ==
    /\ ~crashed
    /\ stq # <<>> /\ Head(stq).t = "update"
    /\ stq' = Tail(stq)
    /\ LET u == Head(stq)
       IN  hsq' = Append(hsq, [t |-> "hash_impl", holder |-> u.holder, str |-> u.val,
                               key |-> u.key, n |-> u.n, u |-> ncalc + 1])
    /\ ncalc' = ncalc + 1
    /\ UNCHANGED <<envVars, wire, accVars, sock, rd, buf, nupd, ssq, wr, m_map,
                   m_queue, pool, njobs, hcb, registryVars, crashed, applied, nbcast, commonVars>>

\* a rule that takes every update for a change
ChangedAlways(map, key, hash) == TRUE

\* a rule that compares no hashes: only the first update of a key is a change
ChangedOnlyNew(map, key, hash) == key \notin DOMAIN map

\* the change-detection rule of hash_calculated: no entry, or another hash stored
Changed(map, key, hash) == key \notin DOMAIN map \/ map[key] # hash

\* a store that keeps only the entry it has just written
StoreAlone(map, key, hash) == [k \in {key} |-> hash]

\* m_map.emplace(key, hash), or it->second = hash
Store(map, key, hash) ==
    [k \in DOMAIN map \cup {key} |-> IF k = key THEN hash ELSE map[k]]

\* session_manager::broadcast: post the fan-out to the registry's strand
broadcast(msg, b) == rgq' = Append(rgq, [t |-> "broadcast", holder |-> 0, msg |-> msg, b |-> b])

\* session::on_updated
on_updated(really, key, hash) ==
    IF really
    THEN /\ nbcast' = nbcast + 1
         /\ broadcast(Msg(key, hash), nbcast + 1)
    ELSE UNCHANGED <<nbcast, rgq>>

\* shared_state::hash_calculated
hash_calculated ==
    /\ ~crashed
    /\ stq # <<>> /\ Head(stq).t = "hash_calculated"
    /\ stq' = Tail(stq)
    /\ LET c == Head(stq)
           really == Changed(m_map, c.key, c.hash)
       IN  /\ m_map' = IF really THEN Store(m_map, c.key, c.hash) ELSE m_map
           /\ on_updated(really, c.key, c.hash)
           /\ applied' = Append(applied, [key |-> c.key, val |-> c.val, hash |-> c.hash,
                                          s |-> c.holder, n |-> c.n, really |-> really,
                                          after |-> m_map', nsess |-> nsess, u |-> c.u])
    /\ UNCHANGED <<envVars, wire, accVars, sock, rd, buf, nupd, ssq, wr, hasherVars,
                   m_list, crashed, ncalc, commonVars>>

(***************************************************************************)
(* hasher                                                                  *)
(***************************************************************************)
\* hasher::hash_impl: append the job, post its digest lambda to the pool
hash_impl ==
    /\ ~crashed
    /\ hsq # <<>> /\ Head(hsq).t = "hash_impl"
    /\ hsq' = Tail(hsq)
    /\ LET j == Head(hsq)
       IN  m_queue' = Append(m_queue, [id |-> njobs + 1, holder |-> j.holder, str |-> j.str,
                                       hash |-> "", key |-> j.key, n |-> j.n, u |-> j.u])
    /\ njobs' = njobs + 1
    /\ pool' = pool \cup {njobs + 1}
    /\ UNCHANGED <<envVars, wire, accVars, sock, rd, buf, nupd, ssq, wr, stq, m_map,
                   hcb, registryVars, crashed, histVars, commonVars>>

ItemOf(q, id) == CHOOSE i \in 1..Len(q) : q[i].id = id

\* a digest lambda that reads the front of the queue instead of its own job
JobStrFront(q, id) == q[1].str

\* it->str, the bytes the digest lambda of job id hashes
JobStr(q, id) == q[ItemOf(q, id)].str

\* the digest lambda of hash_impl, run by any thread of the pool
pool_hash(id) ==
    /\ ~crashed
    /\ id \in pool
    /\ pool' = pool \ {id}
    /\ hsq' = Append(hsq, [t |-> "on_hashed", holder |-> 0, it |-> id,
                           hash |-> sha1_hex(JobStr(m_queue, id))])
    /\ UNCHANGED <<envVars, wire, accVars, sock, rd, buf, nupd, ssq, wr, stq, m_map,
                   m_queue, njobs, hcb, registryVars, crashed, histVars, commonVars>>

\* it->hash = std::move(hash)
SetHash(q, it, hash) ==
    [i \in 1..Len(q) |-> IF q[i].id = it THEN [q[i] EXCEPT !.hash = hash] ELSE q[i]]

RECURSIVE Ready(_)
\* the jobs at the head of the queue that have their digest
Ready(q) == IF q = <<>> \/ Head(q).hash = "" THEN 0 ELSE 1 + Ready(Tail(q))

\* an on_hashed that delivers the job whose digest arrived, wherever it stands
DeliveredNow(q, it) == SelectSeq(q, LAMBDA j : j.id = it)

\* an on_hashed that delivers every job that has its digest, skipping the others
DeliveredReady(q, it) == SelectSeq(q, LAMBDA j : j.hash # "")

\* an on_hashed that delivers the ready jobs at the head newest first
DeliveredNewestFirst(q, it) ==
    IF q[1].id = it
    THEN [i \in 1..Ready(q) |-> q[Ready(q) + 1 - i]]
    ELSE <<>>

\* an on_hashed that delivers the head job alone
DeliveredHead(q, it) == IF q[1].id = it THEN SubSeq(q, 1, 1) ELSE <<>>

\* the jobs on_hashed delivers and erases, in order, once the digest of job
\* `it` is stored in q: none unless `it` is the head, then the head and the
\* jobs behind it up to the first one without a digest
Delivered(q, it) == IF q[1].id = it THEN SubSeq(q, 1, Ready(q)) ELSE <<>>

\* the callback of calculate_hash: post hash_calculated to the store's strand
HashedCb(j) == [t |-> "hash_calculated", holder |-> j.holder, key |-> j.key,
                val |-> j.str, hash |-> j.hash, n |-> j.n, u |-> j.u]

\* hasher::on_hashed
on_hashed ==
    /\ ~crashed
    /\ hsq # <<>> /\ Head(hsq).t = "on_hashed"
    /\ hsq' = Tail(hsq)
    /\ LET h == Head(hsq)
           q == SetHash(m_queue, h.it, h.hash)
           d == Delivered(q, h.it)
           gone == {d[i].id : i \in 1..Len(d)}
       IN  /\ m_queue' = SelectSeq(q, LAMBDA j : j.id \notin gone)
           /\ stq' = stq \o [i \in 1..Len(d) |-> HashedCb(d[i])]
           /\ hcb' = hcb \o [i \in 1..Len(d) |-> [id |-> d[i].id, str |-> d[i].str,
                                                  hash |-> d[i].hash]]
    /\ UNCHANGED <<envVars, wire, accVars, sock, rd, buf, nupd, ssq, wr, m_map,
                   pool, njobs, registryVars, crashed, histVars, commonVars>>

(***************************************************************************)
(* session_manager                                                         *)
(***************************************************************************)
\* the push_back that add posted
registry_add ==
    /\ ~crashed
    /\ rgq # <<>> /\ Head(rgq).t = "add"
    /\ rgq' = Tail(rgq)
    /\ m_list' = Append(m_list, Head(rgq).s)
    /\ UNCHANGED <<envVars, wire, accVars, sock, rd, buf, nupd, ssq, wr, stq, m_map,
                   hasherVars, crashed, histVars, commonVars>>

\* session::send: take a holder and post send_impl to the socket's strand
send(s, msg, kind, it, b) ==
    [t |-> "send_impl", holder |-> s, msg |-> msg, kind |-> kind, it |-> it, b |-> b]

\* a broadcast loop that erases nothing
LockedAll(list) == list

\* the entries of the list whose weak pointer still locks
Locked(list) == SelectSeq(list, LAMBDA s : Alive(s))

\* the sessions one run of the broadcast loop sends to
Receivers(list) == {list[i] : i \in {j \in 1..Len(list) : Alive(list[j])}}

\* the loop that broadcast posted: send to every entry that locks, erase the others
registry_broadcast ==
    /\ ~crashed
    /\ rgq # <<>> /\ Head(rgq).t = "broadcast"
    /\ rgq' = Tail(rgq)
    /\ LET m == Head(rgq)
       IN  ssq' = [s \in Sessions |->
                      IF s \in Receivers(m_list)
                      THEN Append(ssq[s], send(s, m.msg, "bcast", ItOf({}), m.b))
                      ELSE ssq[s]]
    /\ m_list' = Locked(m_list)
    /\ UNCHANGED <<envVars, wire, accVars, sock, rd, buf, nupd, wr, stq, m_map,
                   hasherVars, crashed, histVars, commonVars>>

(***************************************************************************)
(* session: sending                                                        *)
(***************************************************************************)
\* the lambda on_got_message posted: it holds no holder and calls send
sync_post(s) ==
    /\ ~crashed
    /\ ssq[s] # <<>> /\ Head(ssq[s]).t = "sync_post"
    /\ LET p == Head(ssq[s])
       IN  IF Alive(s)
           THEN /\ ssq' = [ssq EXCEPT ![s] = Append(Tail(@), send(s, p.msg, "sync", p.it, 0))]
                /\ UNCHANGED crashed
           ELSE \* shared_from_this() of a destroyed session
                /\ ssq' = [ssq EXCEPT ![s] = Tail(@)]
                /\ \E c \in BOOLEAN : crashed' = c
    /\ UNCHANGED <<envVars, wire, accVars, sock, rd, buf, nupd, wr, stq, m_map,
                   hasherVars, registryVars, histVars, commonVars>>

\* session::send_impl: start an async_write of the whole message
send_impl(s) ==
    /\ ~crashed
    /\ ssq[s] # <<>> /\ Head(ssq[s]).t = "send_impl"
    /\ ssq' = [ssq EXCEPT ![s] = Tail(@)]
    /\ LET m == Head(ssq[s])
       IN  wr' = [wr EXCEPT ![s] = Append(@, [msg |-> m.msg, kind |-> m.kind, it |-> m.it,
                                              b |-> m.b, rest |-> m.msg])]
    /\ UNCHANGED <<envVars, wire, accVars, sock, rd, buf, nupd, stq, m_map,
                   hasherVars, registryVars, crashed, histVars, commonVars>>

\* session::on_get_first_sent without error: ask the store for the next entry
on_get_first_sent(s, it) ==
    stq' = Append(stq, [t |-> "get_next", holder |-> 0, s |-> s, it |-> it])

\* the oldest write operation transfers the rest of its message; async_write
\* completes and session::sent runs without error
sent(s) ==
    /\ ~crashed
    /\ wr[s] # <<>>
    /\ sock[s] = "open"
    /\ LET w == Head(wr[s])
       IN  /\ wire' = [wire EXCEPT ![s] = Append(@, [bytes |-> w.rest, kind |-> w.kind,
                                                     b |-> w.b, msg |-> w.msg])]
           /\ IF w.kind = "sync" THEN on_get_first_sent(s, w.it) ELSE UNCHANGED stq
    /\ wr' = [wr EXCEPT ![s] = Tail(@)]
    /\ UNCHANGED <<envVars, accVars, sock, rd, buf, nupd, ssq, m_map,
                   hasherVars, registryVars, crashed, histVars, commonVars>>

\* the oldest write operation transfers only the first bytes of what is left
\* of its message (the socket's send buffer is full); async_write then starts
\* a write operation for the rest, behind the operations already in flight
write_some(s) ==
    /\ ~crashed
    /\ nparts > 0
    /\ wr[s] # <<>>
    /\ sock[s] = "open"
    /\ Len(Head(wr[s]).rest) > PartBytes
    /\ nparts' = nparts - 1
    /\ LET w == Head(wr[s])
       IN  /\ wire' = [wire EXCEPT ![s] = Append(@, [bytes |-> SubSeq(w.rest, 1, PartBytes),
                                                     kind |-> w.kind, b |-> w.b,
                                                     msg |-> w.msg])]
           /\ wr' = [wr EXCEPT ![s] = Append(Tail(@), [w EXCEPT !.rest = Drop(w.rest, PartBytes)])]
    /\ UNCHANGED <<peer, rx, nlines, accVars, sock, rd, buf, nupd, ssq, stq, m_map,
                   hasherVars, registryVars, crashed, histVars, commonVars>>

\* async_write on a socket that is closed, or whose peer is gone, completes
\* with an error and session::sent closes the socket; cb is not called
write_failed(s) ==
    /\ ~crashed
    /\ wr[s] # <<>>
    /\ sock[s] = "closed" \/ peer[s] = "closed"
    /\ wr' = [wr EXCEPT ![s] = Tail(@)]
    /\ sock' = [sock EXCEPT ![s] = "closed"]
    /\ UNCHANGED <<envVars, wire, accVars, rd, buf, nupd, ssq, stq, m_map,
                   hasherVars, registryVars, crashed, histVars, commonVars>>

(***************************************************************************)
(* The reusable session of src/common/session.hpp.  Its handlers run on    *)
(* the executor of its socket, one at a time, in the order they were       *)
(* posted.                                                                 *)
(***************************************************************************)
\* session::stop: post stop_impl
stop == posted' = Append(posted, [t |-> "stop", id |-> 0, disconnect |-> FALSE])

\* the owner calls start(readed_cb, error_cb, holder)
call_start ==
    /\ ncalls > 0 /\ ~started
    /\ started' = TRUE
    /\ ncalls' = ncalls - 1
    /\ posted' = Append(posted, [t |-> "start", id |-> 0, disconnect |-> FALSE])
    /\ UNCHANGED <<serverVars, m_sock, m_on_stop, m_inactivity_time, m_waits, reading,
                   inlines, cpeer, writes, sent_cb, readed_cb>>

\* the owner calls send(sent_cb, error_cb, msg, disconnect, holder) on the
\* session it has started
call_send(disconnect) ==
    /\ ncalls > 0 /\ started
    /\ ncalls' = ncalls - 1
    /\ posted' = Append(posted, [t |-> "send", id |-> MaxCalls - ncalls,
                                  disconnect |-> disconnect])
    /\ UNCHANGED <<serverVars, m_sock, m_on_stop, m_inactivity_time, m_waits, started,
                   reading, inlines, cpeer, writes, sent_cb, readed_cb>>

\* the owner calls stop() on the session it has started
call_stop ==
    /\ ncalls > 0 /\ started
    /\ ncalls' = ncalls - 1
    /\ stop
    /\ UNCHANGED <<serverVars, m_sock, m_on_stop, m_inactivity_time, m_waits, started,
                   reading, inlines, cpeer, writes, sent_cb, readed_cb>>

\* the peer sends a line, or closes its end
PeerSend ==
    /\ cpeer = "open" /\ started /\ inlines < MaxInLines
    /\ inlines' = inlines + 1
    /\ UNCHANGED <<serverVars, m_sock, m_on_stop, m_inactivity_time, m_waits, posted,
                   started, reading, cpeer, writes, sent_cb, readed_cb, ncalls>>

PeerClose ==
    /\ cpeer = "open" /\ started
    /\ cpeer' = "closed"
    /\ UNCHANGED <<serverVars, m_sock, m_on_stop, m_inactivity_time, m_waits, posted,
                   started, reading, inlines, writes, sent_cb, readed_cb, ncalls>>

\* session::start_inactivity_timer: one more async_wait on the timer
start_inactivity_timer == m_waits' = m_waits + 1

\* session::start_read of the reusable session: async_read_until
session_start_read == reading' = "reading"

\* the lambda of session::start: start_impl
start_impl ==
    /\ posted # <<>> /\ Head(posted).t = "start"
    /\ posted' = Tail(posted)
    /\ IF m_inactivity_time # 0 THEN start_inactivity_timer ELSE UNCHANGED m_waits
    /\ session_start_read
    /\ UNCHANGED <<serverVars, m_sock, m_on_stop, m_inactivity_time, started, inlines,
                   cpeer, writes, sent_cb, readed_cb, ncalls>>

\* the lambda of session::send: send_impl starts an async_write
session_send_impl ==
    /\ posted # <<>> /\ Head(posted).t = "send"
    /\ posted' = Tail(posted)
    /\ writes' = Append(writes, [id |-> Head(posted).id, disconnect |-> Head(posted).disconnect])
    /\ UNCHANGED <<serverVars, m_sock, m_on_stop, m_inactivity_time, m_waits, started,
                   reading, inlines, cpeer, sent_cb, readed_cb, ncalls>>

\* the lambda of session::stop: stop_impl shuts the socket down, closes it
\* and cancels the timer, once
stop_impl ==
    /\ posted # <<>> /\ Head(posted).t = "stop"
    /\ posted' = Tail(posted)
    /\ IF m_on_stop
       THEN UNCHANGED <<m_on_stop, m_sock, m_waits>>
       ELSE /\ m_on_stop' = TRUE
            /\ m_sock' = "closed"
            /\ m_waits' = 0
    /\ UNCHANGED <<serverVars, m_inactivity_time, started, reading, inlines, cpeer,
                   writes, sent_cb, readed_cb, ncalls>>

\* the completion lambda of send_impl for the oldest async_write, which has
\* written the message (ec false) or has failed (ec true): a write on a
\* closed socket fails, a write to a peer that is gone may fail
on_written(ec) ==
    /\ writes # <<>>
    /\ IF ec THEN m_sock = "closed" \/ cpeer = "closed" ELSE m_sock = "open"
    /\ writes' = Tail(writes)
    /\ IF ~m_on_stop /\ ec
       THEN /\ sent_cb' = Append(sent_cb, [id |-> Head(writes).id, ok |-> FALSE,
                                           written |-> ~ec])
            /\ UNCHANGED posted
       ELSE /\ sent_cb' = Append(sent_cb, [id |-> Head(writes).id, ok |-> TRUE,
                                           written |-> ~ec])
            /\ IF Head(writes).disconnect THEN stop ELSE UNCHANGED posted
    /\ UNCHANGED <<serverVars, m_sock, m_on_stop, m_inactivity_time, m_waits, started,
                   reading, inlines, cpeer, readed_cb, ncalls>>

\* async_read_until completes: with a line, or with an error when the socket
\* is closed or the stream has ended
read_completes ==
    /\ reading = "reading"
    /\ \/ m_sock = "open" /\ inlines > 0 /\ reading' = "ok"
       \/ (m_sock = "closed" \/ (cpeer = "closed" /\ inlines = 0)) /\ reading' = "err"
    /\ UNCHANGED <<serverVars, m_sock, m_on_stop, m_inactivity_time, m_waits, posted,
                   started, inlines, cpeer, writes, sent_cb, readed_cb, ncalls>>

\* session::on_readed of the reusable session; again is what readed_cb returns
session_on_readed(again) ==
    /\ reading \in {"ok", "err"}
    /\ IF ~m_on_stop /\ reading = "err"
       THEN \* error_cb
            /\ reading' = "idle"
            /\ UNCHANGED <<m_waits, inlines, readed_cb>>
       ELSE IF m_inactivity_time # 0 /\ m_waits = 0
       THEN \* expires_after cancelled no wait: timed_out, error_cb
            /\ reading' = "idle"
            /\ UNCHANGED <<m_waits, inlines, readed_cb>>
       ELSE /\ inlines' = IF reading = "ok" THEN inlines - 1 ELSE inlines
            /\ readed_cb' = readed_cb \cup {m_on_stop}
            /\ IF again
               THEN /\ session_start_read
                    /\ m_waits' = IF m_inactivity_time # 0 THEN 1 ELSE m_waits
               ELSE /\ reading' = "idle"
                    /\ m_waits' = 0
    /\ UNCHANGED <<serverVars, m_sock, m_on_stop, m_inactivity_time, posted, started,
                   cpeer, writes, sent_cb, ncalls>>

\* session::on_inactivity_timer_timeout without operation_aborted: the timer
\* has expired
on_inactivity_timer_timeout ==
    /\ m_waits > 0
    /\ m_waits' = m_waits - 1
    /\ stop
    /\ UNCHANGED <<serverVars, m_sock, m_on_stop, m_inactivity_time, started, reading,
                   inlines, cpeer, writes, sent_cb, readed_cb, ncalls>>

(***************************************************************************)
(* The server with well-behaved sockets: every write transfers its whole   *)
(* message.  In NextOpen every client stays connected.                     *)
(***************************************************************************)
NextOpen ==
    \/ \E s \in Sessions, l \in Lines : ClientSend(s, l)
    \/ on_accepted
    \/ on_accepted_add
    \/ \E s \in Sessions : on_readed(s)
    \/ get_first_impl
    \/ get_next_impl
    \/ calculate_hash
    \/ hash_calculated
    \/ hash_impl
    \/ \E id \in pool : pool_hash(id)
    \/ on_hashed
    \/ registry_add
    \/ registry_broadcast
    \/ \E s \in Sessions : sync_post(s)
    \/ \E s \in Sessions : send_impl(s)
    \/ \E s \in Sessions : sent(s)

Next ==
    \/ NextOpen
    \/ \E s \in Sessions : ClientClose(s)

Spec == Init /\ [][Next]_vars

SpecOpen == InitWith(MaxSessions, MaxLinesOpen, 0) /\ [][NextOpen]_vars

\* clients that also send lines that are no `KEY SP VALUE`
NextRaw ==
    \/ NextOpen
    \/ \E s \in Sessions, l \in RawLines : ClientSend(s, l)

SpecRaw == InitWith(MaxSessions, MaxLines, 0) /\ [][NextRaw]_vars

\* sockets whose send buffer can be full
NextIO ==
    \/ NextOpen
    \/ \E s \in Sessions : write_some(s)

SpecIO == InitWith(MaxSessions, MaxLines, MaxPartial) /\ [][NextIO]_vars

\* every posted handler is eventually run by the threads of the io_context,
\* and every read or write that can complete does; the clients are free
Fairness ==
    /\ WF_vars(on_accepted_add)
    /\ \A s \in Sessions : WF_vars(on_readed(s))
    /\ WF_vars(get_first_impl) /\ WF_vars(get_next_impl)
    /\ WF_vars(calculate_hash) /\ WF_vars(hash_calculated)
    /\ WF_vars(hash_impl) /\ WF_vars(on_hashed)
    /\ WF_vars(\E id \in pool : pool_hash(id))
    /\ WF_vars(registry_add) /\ WF_vars(registry_broadcast)
    /\ \A s \in Sessions : WF_vars(sync_post(s)) /\ WF_vars(send_impl(s)) /\ WF_vars(sent(s))

SpecFair == InitWith(FairSessions, FairLines, 0) /\ [][Next]_vars /\ Fairness

SpecFairRaw == InitWith(MaxSessions, MaxLines, 0) /\ [][NextRaw]_vars /\ Fairness

\* clients that send any line and disconnect, and writes that fail
ErrLines == {"a 1\n", "x\n"}

NextErr ==
    \/ \E s \in Sessions, l \in ErrLines : ClientSend(s, l)
    \/ \E s \in Sessions : ClientClose(s)
    \/ on_accepted
    \/ on_accepted_add
    \/ \E s \in Sessions : on_readed(s)
    \/ get_first_impl
    \/ get_next_impl
    \/ calculate_hash
    \/ hash_calculated
    \/ hash_impl
    \/ \E id \in pool : pool_hash(id)
    \/ on_hashed
    \/ registry_add
    \/ registry_broadcast
    \/ \E s \in Sessions : sync_post(s)
    \/ \E s \in Sessions : send_impl(s)
    \/ \E s \in Sessions : sent(s)
    \/ \E s \in Sessions : write_failed(s)

SpecErr ==
    /\ InitWith(MaxSessions, MaxLines, 0) /\ [][NextErr]_vars
    /\ Fairness /\ \A s \in Sessions : WF_vars(write_failed(s))

\* accepts that fail, and connections that are reset as soon as accepted
NextAcc ==
    \/ NextOpen
    \/ accept_failed
    \/ on_accepted_reset

SpecAcc == InitWith(MaxSessions, MaxLines, 0) /\ [][NextAcc]_vars

\* the reusable session, its owner and its peer
NextSession ==
    \/ call_start
    \/ \E disconnect \in BOOLEAN : call_send(disconnect)
    \/ call_stop
    \/ PeerSend
    \/ PeerClose
    \/ start_impl
    \/ session_send_impl
    \/ stop_impl
    \/ \E ec \in BOOLEAN : on_written(ec)
    \/ read_completes
    \/ \E again \in BOOLEAN : session_on_readed(again)
    \/ on_inactivity_timer_timeout

SpecSession ==
    /\ InitServer(0, 0, 0)
    /\ \E t \in 0..MaxInactivity : InitSession(t, MaxCalls)
    /\ [][NextSession]_vars

\* clients that stay connected and keep the hasher busy
SpecFairHash == InitWith(HashSessions, HashLines, 0) /\ [][NextOpen]_vars /\ Fairness

\* the same with every client connected for good
SpecFairOpen == InitWith(FairSessions, FairLines, 0) /\ [][NextOpen]_vars /\ Fairness

(***************************************************************************)
(* Properties                                                              *)
(***************************************************************************)
Max(S) == CHOOSE x \in S : \A y \in S : y <= x

\* the applications of key k before the j-th one
Before(j) == {i \in 1..(j - 1) : applied[i].key = applied[j].key}

\* SHA-1 digests of the values in use, from sha1sum(1)
Sha1Sum(v) ==
    CASE v = "1\n" -> "0xe5fa44f2b31c1fb553b6021e7360d07d5d91ff5e"
      [] v = "2\n" -> "0x7448d8798a4380162d4b56f9b452e2f6f9e24e7a"
      [] v = "1"   -> "0x356a192b7913b04c54574d18c28d46e6395428ab"
      [] v = "2"   -> "0xda4b9237bacccdf19c0760cab7aec4a8359010b0"

\* "0x" and 40 lowercase hexadecimal digits
IsHash(h) ==
    /\ Len(h) = 42
    /\ SubSeq(h, 1, 2) = "0x"
    /\ \A i \in 3..42 : Find("0123456789abcdef", CharAt(h, i)) > 0

\* the well-formed ones among the digests of the values in use
WellFormed == {h \in {HashTable[v] : v \in HashInputs} : IsHash(h)}

\* C1: change detection.  A run of hash_calculated with (K, h) stores h and
\* issues exactly one broadcast of "K h\n" if K has no entry or another hash
\* is stored for K; otherwise it leaves the map as it is and issues none.
C1_Step ==
    applied' # applied =>
        LET c == Head(stq)
        IN  IF c.key \notin DOMAIN m_map \/ m_map[c.key] # c.hash
            THEN /\ DOMAIN m_map' = DOMAIN m_map \cup {c.key}
                 /\ m_map'[c.key] = c.hash
                 /\ \A k \in DOMAIN m_map \ {c.key} : m_map'[k] = m_map[k]
                 /\ nbcast' = nbcast + 1
                 /\ rgq' = Append(rgq, [t |-> "broadcast", holder |-> 0,
                                        msg |-> c.key \o " " \o c.hash \o "\n",
                                        b |-> nbcast + 1])
            ELSE m_map' = m_map /\ nbcast' = nbcast /\ rgq' = rgq

\* Hence an update is a change exactly when it is the first of its key or
\* carries another hash than the update of that key before it (V1 then V2
\* gives two broadcasts), and every change is one broadcast.
C1_History ==
    /\ \A j \in 1..Len(applied) :
          applied[j].really <=>
              (Before(j) = {} \/ applied[Max(Before(j))].hash # applied[j].hash)
    /\ nbcast = Cardinality({j \in 1..Len(applied) : applied[j].really})

C1_ChangeDetection == []C1_History /\ [][C1_Step]_vars

\* two values for one key were applied and then one of them again: two broadcasts
C1_Witness ==
    /\ Len(applied) = 3
    /\ applied[1].key = applied[2].key /\ applied[1].hash # applied[2].hash
    /\ applied[3].key = applied[2].key /\ applied[3].hash = applied[2].hash
    /\ nbcast = 2

\* the applications i .. j of one key all carry the hash of the i-th
SameRun(i, j) ==
    /\ i <= j
    /\ applied[j].key = applied[i].key
    /\ \A k \in i..j : applied[k].key = applied[i].key => applied[k].hash = applied[i].hash

\* C2: idempotence.  Over submissions of the same (K, V), from any sessions,
\* with no other value applied for K in between, exactly one broadcast is
\* issued (by the first), and every later one leaves the store as it was:
\* the entry of K is the one the first submission left.
C2_Idempotence ==
    \A i, j \in 1..Len(applied) :
        (SameRun(i, j) /\ (Before(i) = {} \/ applied[Max(Before(i))].hash # applied[i].hash)) =>
            /\ Cardinality({k \in i..j : applied[k].key = applied[i].key /\ applied[k].really}) = 1
            /\ applied[i].really
            /\ j > i => /\ applied[j].after = applied[j - 1].after
                        /\ applied[j].after[applied[j].key] = applied[i].after[applied[i].key]

\* both sessions submitted the same line, three times in all: one broadcast
C2_Witness ==
    /\ Len(applied) = 3
    /\ SameRun(1, 3) /\ applied[2].key = applied[1].key
    /\ applied[1].s # applied[3].s
    /\ nbcast = 1

\* C3: hash consistency.  For every key of the store the stored hash is the
\* SHA-1 of the value of the latest update applied for that key, written as
\* "0x" and 40 lowercase hexadecimal digits (42 bytes).
C3_HashConsistency ==
    \A k \in DOMAIN m_map :
        LET of == {i \in 1..Len(applied) : applied[i].key = k}
        IN  /\ of # {}
            /\ m_map[k] = Sha1Sum(applied[Max(of)].val)
            /\ m_map[k] \in WellFormed \/ IsHash(m_map[k])

\* the store holds two keys, one of them updated twice with different values
C3_Witness ==
    /\ Cardinality(DOMAIN m_map) = 2
    /\ \E i, j \in 1..Len(applied) :
          i < j /\ applied[i].key = applied[j].key /\ applied[i].val # applied[j].val

\* the key and the value of a well-formed line, the value without the newline
KeyOf(l) == SubSeq(l, 1, Find(l, " ") - 1)
ValueOf(l) == SubSeq(l, Find(l, " ") + 1, Len(l) - 1)

\* C4: line parsing.  The value submitted for a line KEY SP VALUE LF is VALUE
\* without the line terminator, so the hash stored for a key is the SHA-1 of
\* the VALUE of a line sent for that key.
C4_ValueWithoutLF ==
    /\ \A i \in 1..Len(stq) : stq[i].t = "update" => ~HasLF(stq[i].val)
    /\ \A k \in DOMAIN m_map :
          \E l \in Lines : KeyOf(l) = k /\ m_map[k] = Sha1Sum(ValueOf(l))

\* C5: fan-out completeness.  When the registry runs a broadcast, every
\* session alive at that moment is sent the line, also one whose registry add
\* has not run yet.
C5_Step ==
    (rgq # <<>> /\ Head(rgq).t = "broadcast" /\ rgq' = Tail(rgq)) =>
        \A s \in Sessions :
            Alive(s) => /\ Len(ssq'[s]) = Len(ssq[s]) + 1
                        /\ ssq'[s][Len(ssq'[s])].t = "send_impl"
                        /\ ssq'[s][Len(ssq'[s])].msg = Head(rgq).msg

C5_FanOutComplete == [][C5_Step]_vars

\* the keys the clients use
AllKeys == {KeyOf(l) : l \in Lines}

\* s has connected and its walk has not started; an update of k was applied
\* when s was not accepted yet
SyncAsked(s, k) ==
    /\ \E i \in 1..Len(applied) : applied[i].key = k /\ applied[i].nsess < s
    /\ \E i \in 1..Len(stq) : stq[i].t = "get_first" /\ stq[i].s = s

\* a sync line for k was written to s
GotSync(s, k) ==
    \E i \in 1..Len(wire[s]) :
        /\ wire[s][i].kind = "sync"
        /\ SubSeq(wire[s][i].msg, 1, Len(k) + 1) = k \o " "

\* C6: sync completeness.  A client that connects after updates were applied
\* and stays connected is eventually sent a sync line for every key of the
\* store.
C6_SyncComplete ==
    \A s \in Sessions, k \in AllKeys :
        SyncAsked(s, k) ~> (peer[s] = "closed" \/ GotSync(s, k))

\* nothing is pending anywhere in the server, and the clients' bytes are read
Quiescent ==
    /\ ~crashed
    /\ acc.pc = "accept"
    /\ stq = <<>> /\ hsq = <<>> /\ rgq = <<>> /\ pool = {} /\ m_queue = <<>>
    /\ \A s \in Sessions :
          ssq[s] = <<>> /\ wr[s] = <<>> /\ rx[s] = "" /\ ~HasLF(buf[s])

\* the line "k h\n" was written to s
Received(s, k, h) == \E i \in 1..Len(wire[s]) : wire[s][i].msg = Msg(k, h)

\* C7: no lost update on connect.  A session that stays connected has been
\* sent, by its sync walk or by a broadcast, the hash of every key of the
\* store once the server has nothing left to do.
C7_NoLostUpdate ==
    Quiescent =>
        \A s \in Sessions :
            (s <= nsess /\ peer[s] = "open") =>
                \A k \in DOMAIN m_map : Received(s, k, m_map[k])

\* C8: per-key, per-submitter ordering.  Two updates of one key read from
\* one connection are applied to the store in the order they were read.
C8_SubmitterOrder ==
    \A i, j \in 1..Len(applied) :
        (i < j /\ applied[i].s = applied[j].s /\ applied[i].key = applied[j].key) =>
            applied[i].n < applied[j].n

\* one connection's two updates of a key, with different values, were applied
\* around another connection's update
C8_Witness ==
    /\ Len(applied) = 3
    /\ applied[1].s = applied[3].s /\ applied[1].key = applied[3].key
    /\ applied[2].s # applied[1].s
    /\ applied[1].val # applied[3].val

\* the session and the read number of the update that issued broadcast b
Issuer(b) ==
    LET j == CHOOSE i \in 1..Len(applied) :
                 /\ applied[i].really
                 /\ Cardinality({x \in 1..i : applied[x].really}) = b
    IN  applied[j]

\* C9: per-session broadcast ordering.  The socket of a session receives the
\* bytes of the broadcast lines in the order the registry processed the
\* broadcasts, so the broadcasts of one connection's updates in the order of
\* their submission.
C9_BroadcastOrder ==
    \A s \in Sessions :
        \A i, j \in 1..Len(wire[s]) :
            (i < j /\ wire[s][i].kind = "bcast" /\ wire[s][j].kind = "bcast") =>
                /\ wire[s][i].b <= wire[s][j].b
                /\ (Issuer(wire[s][i].b).s = Issuer(wire[s][j].b).s) =>
                       Issuer(wire[s][i].b).n <= Issuer(wire[s][j].b).n

\* C10: in-order delivery of the hasher.  The completion callbacks are
\* invoked in the order the jobs were appended to the queue, none before all
\* earlier jobs' callbacks, and each with the digest of its own job.
C10_HasherInOrder ==
    \A i \in 1..Len(hcb) :
        /\ hcb[i].id = i
        /\ hcb[i].hash = Sha1Sum(hcb[i].str)

\* a callback has been invoked, and of the two jobs left the second has its
\* digest while the first is still being hashed
C10_Witness ==
    /\ Len(hcb) >= 1
    /\ Len(m_queue) = 2
    /\ m_queue[1].hash = "" /\ m_queue[2].hash # ""

\* the first line of the bytes d, with its newline
FirstLine(d) == SubSeq(d, 1, Find(d, "\n"))

\* the bytes d start with a line that has no space
Malformed(d) == HasLF(d) /\ Find(FirstLine(d), " ") = 0

\* the read of session s completes in this step with a line without a space
ReadsMalformed(s) ==
    /\ rd[s] /\ sock[s] = "open"
    /\ ~HasLF(buf[s]) /\ Malformed(buf[s] \o rx[s])
    /\ rx[s] # "" /\ rx'[s] = ""

C11_Step ==
    \A s \in Sessions :
        ReadsMalformed(s) =>
            /\ stq' = stq /\ hsq' = hsq /\ m_queue' = m_queue /\ m_map' = m_map
            /\ rgq' = rgq /\ ssq' = ssq /\ wr' = wr /\ wire' = wire
            /\ rd'[s] /\ sock'[s] = "open"

\* C11: a malformed line is harmless.  The read of a line without a space,
\* the empty line included, submits nothing to the store, changes no entry,
\* sends nothing to any session and leaves the session open and reading.
C11_MalformedHarmless == [][C11_Step]_vars

C11_Witness ==
    \E s, t \in Sessions :
        /\ rd[s] /\ rd[t] /\ sock[s] = "open" /\ sock[t] = "open"
        /\ buf[s] = "x\n" /\ buf[t] = "\n"
        /\ m_map = <<>> /\ stq = <<>>

\* the bytes d hold a line without a space and, right behind it, a line `K V`
MalformedThenGood(d) ==
    /\ Malformed(d)
    /\ LET rest == Drop(d, Find(d, "\n"))
       IN  HasLF(rest) /\ FirstLine(rest) \in Lines

\* C12: progress after a malformed line.  A line without a space is dropped
\* and the read loop goes on: the well-formed line the client has sent behind
\* it is eventually submitted to the store.
C12_ProgressAfterMalformed ==
    \A s \in Sessions, n \in 0..MaxLines :
        (rd[s] /\ nupd[s] = n /\ MalformedThenGood(buf[s] \o rx[s])) ~> (nupd[s] > n)

\* the lines for key k among what was written to s
WrittenFor(s, k) == {i \in 1..Len(wire[s]) : KeyOf(wire[s][i].msg) = k}

\* the application that issued broadcast b
IssuedAt(b) ==
    CHOOSE i \in 1..Len(applied) :
        applied[i].really /\ Cardinality({x \in 1..i : applied[x].really}) = b

\* the hashes the store has held for k since broadcast b was issued
StoredSince(k, b) == {applied[x].after[k] : x \in IssuedAt(b)..Len(applied)}

\* C13: convergence of the clients.  When nothing is pending, the last line
\* written to a connected session for a key carries the hash the store holds
\* for that key; and no sync line written behind a broadcast line of the same
\* key carries a hash older than the one of that broadcast.
C13_Convergence ==
    \A s \in Sessions :
        /\ (Quiescent /\ s <= nsess /\ peer[s] = "open") =>
               \A k \in DOMAIN m_map :
                   WrittenFor(s, k) # {} =>
                       ValueOf(wire[s][Max(WrittenFor(s, k))].msg) = m_map[k]
        /\ \A i, j \in 1..Len(wire[s]) :
               (/\ i < j
                /\ wire[s][i].kind = "bcast" /\ wire[s][j].kind = "sync"
                /\ KeyOf(wire[s][i].msg) = KeyOf(wire[s][j].msg)) =>
                   ValueOf(wire[s][j].msg) \in StoredSince(KeyOf(wire[s][i].msg), wire[s][i].b)

\* the number of the broadcast the i-th application issued
BroadcastOf(i) == Cardinality({x \in 1..i : applied[x].really})

\* C14: self-delivery.  Once nothing is pending, a session that stayed
\* connected has been sent the broadcast line of every update it submitted
\* that changed the store, also of the one it sent right after connecting.
C14_SelfDelivery ==
    Quiescent =>
        \A i \in 1..Len(applied) :
            (applied[i].really /\ peer[applied[i].s] = "open") =>
                \E x \in 1..Len(wire[applied[i].s]) :
                    /\ wire[applied[i].s][x].kind = "bcast"
                    /\ wire[applied[i].s][x].b = BroadcastOf(i)
                    /\ wire[applied[i].s][x].msg = Msg(applied[i].key, applied[i].hash)

\* the read of s ends in this step with an error or an end of stream
ReadEnds(s) == rd[s] /\ ~rd'[s]

C15_Step ==
    \A s \in Sessions :
        ReadEnds(s) =>
            /\ m_map' = m_map
            /\ m_list' = m_list
            /\ \A t \in Sessions \ {s} : rd'[t] = rd[t] /\ sock'[t] = sock[t]

\* broadcast b waits in the registry, which holds session t
BroadcastPending(t, b) ==
    /\ \E i \in 1..Len(rgq) : rgq[i].t = "broadcast" /\ rgq[i].b = b
    /\ \E i \in 1..Len(m_list) : m_list[i] = t
    /\ peer[t] = "open"

\* the line of broadcast b was written to t
BroadcastSent(t, b) ==
    \E x \in 1..Len(wire[t]) : wire[t][x].kind = "bcast" /\ wire[t][x].b = b

\* C15: error locality.  The end of one session's read by an error or an end
\* of stream changes neither the store nor any other session, and whatever
\* happens to other sessions, a broadcast in progress is sent to every
\* registered session that stays connected.
C15_ErrorLocality ==
    /\ [][C15_Step]_vars
    /\ \A t \in Sessions, b \in 1..FairLines :
           BroadcastPending(t, b) ~> (peer[t] = "closed" \/ BroadcastSent(t, b))

\* the cursors of the sync walks in progress: the iterators held by the
\* pending get_next tasks, sync lines and their writes
Cursors ==
    {stq[i].it : i \in {x \in 1..Len(stq) : stq[x].t = "get_next"}}
    \cup UNION {{ssq[s][i].it : i \in {x \in 1..Len(ssq[s]) :
                                          ssq[s][x].t = "sync_post" \/ ssq[s][x].kind = "sync"}}
                : s \in Sessions}
    \cup UNION {{wr[s][i].it : i \in {x \in 1..Len(wr[s]) : wr[s][x].kind = "sync"}}
                : s \in Sessions}

C16_Step == \A k \in DOMAIN m_map : k \in DOMAIN m_map'

C16_Entries ==
    /\ Cardinality(DOMAIN m_map) = Cardinality({applied[i].key : i \in 1..Len(applied)})
    /\ \A it \in Cursors : ~it.at_end /\ it.key \in DOMAIN m_map

\* C16: store monotonicity.  The store holds one entry for each key ever
\* applied, no step removes an entry, and every cursor of a sync walk in
\* progress refers to an entry of the store.
C16_StoreMonotone == []C16_Entries /\ [][C16_Step]_vars

C16_Witness ==
    /\ Cardinality(DOMAIN m_map) = 2
    /\ Len(applied) = 3
    /\ \E it \in Cursors : it.key = "a"

\* C17: key well-formedness.  Every key of the store is non-empty and holds
\* neither a space nor a newline, whatever lines the clients send.
C17_KeysWellFormed ==
    \A k \in DOMAIN m_map : k # "" /\ Find(k, " ") = 0 /\ Find(k, "\n") = 0

\* C18: single writer.  At most one write operation is in flight on the
\* socket of a session at any time.
C18_SingleWriter == \A s \in Sessions : Len(wr[s]) <= 1

\* the sessions whose code an outstanding callback without a holder will run:
\* the get_first and get_next callbacks and the lambda of on_got_message
Awaited ==
    {stq[i].s : i \in {x \in 1..Len(stq) : stq[x].t = "get_first" \/ stq[x].t = "get_next"}}
    \cup {s \in Sessions : \E i \in 1..Len(ssq[s]) : ssq[s][i].t = "sync_post"}

\* C19: self-ownership.  Every outstanding callback that runs session code
\* keeps its session alive, so none runs on a destroyed session.
C19_SelfOwnership ==
    /\ ~crashed
    /\ \A s \in Awaited : Alive(s)

\* the broadcasts waiting in the registry, in the order of its queue
Broadcasts == SelectSeq(rgq, LAMBDA t : t.t = "broadcast")

\* C20: store application order.  The i-th update applied to the map is the
\* i-th whose calculate_hash ran on the store's strand, whatever the order
\* the digests were finished in and whichever sessions sent the updates, and
\* the broadcasts reach the registry in the order of the applications.
C20_ApplicationOrder ==
    /\ \A i \in 1..Len(applied) : applied[i].u = i
    /\ \A i \in 1..Len(Broadcasts) :
          /\ Broadcasts[i].b = nbcast - Len(Broadcasts) + i
          /\ Broadcasts[i].msg = Msg(applied[IssuedAt(Broadcasts[i].b)].key,
                                     applied[IssuedAt(Broadcasts[i].b)].hash)

C20_Witness ==
    /\ Len(applied) = 2 /\ Len(Broadcasts) = 2
    /\ applied[1].s # applied[2].s
    /\ applied[1].key = applied[2].key /\ applied[1].hash # applied[2].hash

\* the number of entries of the registry that refer to s
Entries(list, s) == Cardinality({i \in 1..Len(list) : list[i] = s})

\* the registry runs a broadcast in this step
RunsBroadcast == rgq # <<>> /\ Head(rgq).t = "broadcast" /\ rgq' = Tail(rgq)

C21_Step ==
    RunsBroadcast =>
        /\ m_list' = SelectSeq(m_list, LAMBDA s : Alive(s))
        /\ \A s \in Sessions :
              IF Alive(s)
              THEN /\ Len(ssq'[s]) = Len(ssq[s]) + Entries(m_list, s)
                   /\ SubSeq(ssq'[s], 1, Len(ssq[s])) = ssq[s]
                   /\ \A i \in (Len(ssq[s]) + 1)..Len(ssq'[s]) :
                         /\ ssq'[s][i].t = "send_impl"
                         /\ ssq'[s][i].msg = Head(rgq).msg
                         /\ ssq'[s][i].holder = s
              ELSE ssq'[s] = ssq[s]

\* C21: registry broadcast semantics.  One broadcast sends the message once
\* for every registry entry whose session is alive and keeps that entry; it
\* erases exactly the entries of destroyed sessions and keeps the order of
\* the others.
C21_BroadcastSemantics == [][C21_Step]_vars /\ [](\A s \in Sessions : Entries(m_list, s) <= 1)

C21_Witness ==
    /\ nsess = 2 /\ acc.pc = "accept" /\ rgq = <<>>
    /\ Destroyed(1) /\ m_list = <<2>>
    /\ \E i \in 1..Len(ssq[2]) : ssq[2][i].t = "send_impl" /\ ssq[2][i].kind = "bcast"

\* job id waits in the hasher's queue
Queued(id) == \E i \in 1..Len(m_queue) : m_queue[i].id = id

\* the callbacks invoked for job id so far
Callbacks(id) == {i \in 1..Len(hcb) : hcb[i].id = id}

\* a digest is being computed by the pool or is on its way to on_hashed
Hashing == pool # {} \/ \E i \in 1..Len(hsq) : hsq[i].t = "on_hashed"

C22_Queue ==
    /\ \A id \in 1..njobs :
          /\ Cardinality(Callbacks(id)) <= 1
          /\ Queued(id) <=> Callbacks(id) = {}
    /\ m_queue # <<>> => m_queue[1].hash = ""
    /\ ~Hashing => m_queue = <<>>

\* C22: liveness of the hasher.  While the process runs, every job appended
\* to the queue has its callback invoked, once, and leaves the queue; a job
\* whose digest is ready waits only for jobs ahead of it that are still being
\* hashed, and the queue is empty once no digest is outstanding.
C22_HasherLiveness ==
    /\ []C22_Queue
    /\ \A id \in 1..HashLines : Queued(id) ~> (Callbacks(id) # {} /\ ~Queued(id))

C22_Witness ==
    /\ Len(m_queue) = 2 /\ m_queue[1].hash = "" /\ m_queue[2].hash # ""
    /\ pool = {m_queue[1].id}

\* the steps of the sync walk of s that are under way: the store's read, the
\* posted line, its send and its write
WalkSteps(s) ==
    Cardinality({i \in 1..Len(stq) : stq[i].t \in {"get_first", "get_next"} /\ stq[i].s = s})
    + Cardinality({i \in 1..Len(ssq[s]) : ssq[s][i].t = "sync_post" \/ ssq[s][i].kind = "sync"})
    + Cardinality({i \in 1..Len(wr[s]) : wr[s][i].kind = "sync"})

\* the sync lines written to s
SyncLines(s) == {i \in 1..Len(wire[s]) : wire[s][i].kind = "sync"}

\* the keys of the sync lines of s that are posted, sent or being written
SyncAhead(s) ==
    {ssq[s][i].it.key : i \in {x \in 1..Len(ssq[s]) :
                                   ssq[s][x].t = "sync_post" \/ ssq[s][x].kind = "sync"}}
    \cup {wr[s][i].it.key : i \in {x \in 1..Len(wr[s]) : wr[s][x].kind = "sync"}}

\* C23: shape of the sync walk.  The sync lines of a session go out in
\* strictly ascending key order, so one per key at most; one step of the walk
\* is under way at a time, the next entry being asked for once the write of
\* the line before it has completed; and a walk that has ended with no update
\* applied since the session connected has sent one line for every key.
C23_SyncWalk ==
    \A s \in Sessions :
        /\ WalkSteps(s) <= 1
        /\ s > nsess => WalkSteps(s) = 0 /\ SyncLines(s) = {}
        /\ \A i, j \in SyncLines(s) :
              i < j => StrLess(KeyOf(wire[s][i].msg), KeyOf(wire[s][j].msg))
        /\ \A k \in SyncAhead(s) :
              \A i \in SyncLines(s) : StrLess(KeyOf(wire[s][i].msg), k)
        /\ \A x \in 1..Len(stq) :
              (stq[x].t = "get_next" /\ stq[x].s = s) =>
                  /\ SyncLines(s) # {}
                  /\ stq[x].it.key = KeyOf(wire[s][Max(SyncLines(s))].msg)
        /\ (/\ s <= nsess /\ peer[s] = "open" /\ WalkSteps(s) = 0
            /\ \A i \in 1..Len(applied) : applied[i].nsess < s) =>
               {KeyOf(wire[s][i].msg) : i \in SyncLines(s)} = DOMAIN m_map

C23_Witness ==
    \E s \in Sessions :
        /\ peer[s] = "open" /\ WalkSteps(s) = 0
        /\ Cardinality(SyncLines(s)) = 2
        /\ Cardinality(DOMAIN m_map) = 2
        /\ \A i \in 1..Len(applied) : applied[i].nsess < s

\* the read of s can only end with an error: its socket is closed, or its
\* peer has closed the connection
ReadFails(s) == sock[s] = "closed" \/ peer[s] = "closed"

\* C24: read loop termination.  A read of a session ends only with an end of
\* stream or an error, and that step submits no update; once the read of an
\* accepted session has ended the session starts no further read and submits
\* no further update; and a session whose reads cannot have failed has its
\* read outstanding.
C24_Step ==
    \A s \in Sessions :
        /\ (rd[s] /\ ~rd'[s]) => (ReadFails(s) /\ nupd'[s] = nupd[s] /\ stq' = stq)
        /\ (s <= nsess /\ ~rd[s]) => (~rd'[s] /\ nupd'[s] = nupd[s])

C24_ReadLoop ==
    /\ [][C24_Step]_vars
    /\ [](\A s \in Sessions : (s <= nsess /\ ~ReadFails(s)) => rd[s])

C24_Witness ==
    \E s, t \in Sessions :
        /\ s <= nsess /\ peer[s] = "closed" /\ ~rd[s] /\ nupd[s] >= 1
        /\ t <= nsess /\ peer[t] = "open" /\ rd[t] /\ nupd[t] >= 1

\* the oldest write of s completes in this step with nothing written
WriteFails(s) == wr[s] # <<>> /\ wr'[s] = Tail(wr[s]) /\ wire'[s] = wire[s]

C25_Step ==
    \A s \in Sessions :
        /\ WriteFails(s) => (sock'[s] = "closed" /\ stq' = stq /\ ssq' = ssq)
        /\ sock[s] = "closed" => (sock'[s] = "closed" /\ wire'[s] = wire[s])

C26_Reclamation ==
    /\ \A s \in Sessions :
          (s <= nsess /\ ReadFails(s)) ~> (Destroyed(s) \/ crashed)
    /\ [][C21_Step]_vars

\* async_accept completes in this step without error
AcceptCompletes == acc.pc = "accept" /\ naccept' = naccept - 1

\* the registrations of session s: made, posted, or about to be posted
Registrations(s) ==
    Entries(m_list, s)
    + Cardinality({i \in 1..Len(rgq) : rgq[i].t = "add" /\ rgq[i].s = s})
    + (IF acc.pc = "add" /\ acc.s = s THEN 1 ELSE 0)

C27_Step ==
    /\ AcceptCompletes =>
          /\ nsess' = nsess + 1 /\ rd'[nsess'] /\ ~crashed'
          /\ acc' = [pc |-> "add", s |-> nsess']
    /\ (acc.pc = "add" /\ acc' # acc) =>
          /\ acc' = [pc |-> "accept", s |-> 0]
          /\ rgq' = Append(rgq, [t |-> "add", holder |-> 0, s |-> acc.s])
    /\ acc.pc = "stopped" => (acc' = acc /\ nsess' = nsess)

\* C27: the acceptor loop.  An accept that completes without error creates
\* one session and starts it, the session is then registered exactly once and
\* one new accept is started; after an accept that failed no accept is
\* started and no session is created.
C27_AcceptorLoop ==
    /\ [][C27_Step]_vars
    /\ [](\A s \in Sessions : s <= nsess => Registrations(s) = 1)

\* the updates of s that wait in the store's queue or in the hasher
PendingUpdates(s) ==
    {i \in 1..Len(stq) : stq[i].t = "update" /\ stq[i].holder = s}
    \cup {i \in 1..Len(hsq) : hsq[i].holder = s}
    \cup {i \in 1..Len(m_queue) : m_queue[i].holder = s}

\* the updates submitted for s that were applied
AppliedOf(s) == {i \in 1..Len(applied) : applied[i].s = s}

\* C28: in-flight updates survive the disconnect of their submitter.  A
\* session with an update under way is not destroyed; once the server has
\* nothing left to do every update read from a connection was applied, and
\* the line of each one that changed the store, read from a connection that
\* is closed by now, was written to every session that was accepted when it
\* was applied and is still connected.
C28_InFlightSurvive ==
    /\ \A s \in Sessions : PendingUpdates(s) # {} => Alive(s)
    /\ Quiescent =>
          /\ \A s \in Sessions : Cardinality(AppliedOf(s)) = nupd[s]
          /\ \A i \in 1..Len(applied) :
                (applied[i].really /\ peer[applied[i].s] = "closed") =>
                    \A t \in 1..applied[i].nsess :
                        peer[t] = "open" => Received(t, applied[i].key, applied[i].hash)

\* the sends of the reusable session under way or reported with number id
SendsOf(id) ==
    Cardinality({i \in 1..Len(posted) : posted[i].t = "send" /\ posted[i].id = id})
    + Cardinality({i \in 1..Len(writes) : writes[i].id = id})
    + Cardinality({i \in 1..Len(sent_cb) : sent_cb[i].id = id})

\* C29: the send result of the reusable session.  sent_cb is called once for
\* a send, with true when the message was written and with false when the
\* write ended with an error, also after the session was stopped.
C29_SendResult ==
    /\ \A id \in 1..MaxCalls : SendsOf(id) <= 1
    /\ \A i \in 1..Len(sent_cb) : sent_cb[i].ok <=> sent_cb[i].written

\* the executor runs stop_impl in this step
RunsStopImpl == posted # <<>> /\ Head(posted).t = "stop" /\ posted' = Tail(posted)

\* a read is started in this step
StartsRead == reading # "reading" /\ reading' = "reading"

C30_Step ==
    m_on_stop =>
        /\ RunsStopImpl =>
              UNCHANGED <<m_sock, m_on_stop, m_waits, reading, writes, sent_cb, readed_cb>>
        /\ readed_cb' = readed_cb
        /\ ~StartsRead

\* C30: stop of the reusable session.  A stop_impl that runs on a stopped
\* session changes nothing; once stop_impl has run readed_cb is not called and
\* no read is started on the closed socket.
C30_Stop ==
    /\ [][C30_Step]_vars
    /\ [](TRUE \notin readed_cb)
====
